---- MODULE Spec2Model ----
(***************************************************************************)
(* Internly API backend: the three route handlers of                      *)
(* backend/app/api/routes.py, the database client they call, and the      *)
(* cross-origin configuration of backend/app/main.py.                     *)
(*                                                                         *)
(* Each handler makes at most one database call and builds its response   *)
(* from that call alone, so a request is one step, taken at the moment    *)
(* its database call executes.  Requests of any number of clients are     *)
(* handled in any order; the model keeps the requests handled, their      *)
(* responses and the database calls issued.                               *)
(***************************************************************************)
EXTENDS Integers, Sequences, FiniteSets, TLC

(* ---------------------------- bounds ---------------------------------- *)

\* Number of requests the application handles in one behaviour.
MaxRequests == 4

(* ------------------------ values of the program ----------------------- *)

\* Request bodies of POST /test: arbitrary mappings (Python dicts).
Records == { [name |-> "a"], [name |-> "b", role |-> "x"] }

\* Placeholder for the body of a request that carries none.
NoBody == [none |-> TRUE]

\* str(e) of the exceptions the database client raises.
ErrorMessages == { "timeout", "permission denied" }

\* Python values a result's .data field can hold.  value is always a
\* sequence of mappings: the rows of a list, the one mapping of a dict,
\* nothing for None.
PyList(rows) == [type |-> "list", value |-> rows]
PyDict(row) == [type |-> "dict", value |-> <<row>>]
PyNone == [type |-> "NoneType", value |-> <<>>]

\* len(v) is defined for lists and dicts and raises TypeError for None.
HasLen(v) == v.type \in {"list", "dict"}
PyLen(v) == IF v.type = "list" THEN Len(v.value)
            ELSE Cardinality(DOMAIN v.value[1])

\* str(e) of the TypeError that len(None) raises.
NoLenMessage == "object of type 'NoneType' has no len()"

(* ------------------------------ state --------------------------------- *)

VARIABLES
    test_records,  \* rows of the "test_records" collection, oldest first
    request,       \* requests handled, in the order they were handled
    response,      \* response[r]: the response sent for request[r]
    calls,         \* database calls issued, in the order they executed
    cors           \* the cross-origin exchange under examination

vars == <<test_records, request, response, calls, cors>>

(* -------------------------- database client --------------------------- *)

\* A call either raises an exception or returns a result with a data field.
Raise(message) == [outcome |-> "raise", message |-> message, data |-> PyNone]
Return(data) == [outcome |-> "return", message |-> "", data |-> data]

\* The types of data a result may carry: a list (the documented
\* interface), or also something that is not a list.
Documented == { "list" }
AnyData == { "list", "NoneType", "dict" }

\* supabase.table("test_records").select("*").execute(): an exception, or
\* a result whose data is the list of all rows of the collection, None, or
\* a single mapping.
select(rows, types) ==
    { Raise(m) : m \in ErrorMessages }
      \cup { Return(d) :
               d \in { e \in { PyList(rows), PyNone } \cup
                               (IF rows = <<>> THEN {}
                                ELSE { PyDict(rows[1]) }) :
                           e.type \in types } }

\* supabase.table("test_records").insert(record).execute(): the pairs of
\* result and collection afterwards.  A returning insert has stored the
\* row; its data is the list of the inserted row, or None.  A raising
\* insert has stored nothing, unless it is the reply that timed out.
insert(rows, record, types) ==
    { <<Raise(m), rows>> : m \in ErrorMessages }
      \cup { <<Raise("timeout"), Append(rows, record)>> }
      \cup { <<Return(d), Append(rows, record)>> :
               d \in { e \in { PyList(<<record>>), PyNone } :
                           e.type \in types } }

Call(r, op, record, result) ==
    [req |-> r, table |-> "test_records", op |-> op, columns |-> "*",
     record |-> record, result |-> result]

(* ---------------------------- route handlers -------------------------- *)

HTTPException(status_code, detail) ==
    [status |-> status_code, body |-> [detail |-> detail]]

\* Mutant of root_response: the message is worded differently.
root_response_reworded ==
    [status |-> 200, body |-> [message |-> "Backend connected"]]

\* def root()
root_response ==
    [status |-> 200, body |-> [message |-> "Backend connected successfully!"]]

\* Mutant of get_test_records_response: the except clause leaves str(e)
\* out of the detail.
get_test_records_response_no_message(data) ==
    IF data.outcome = "raise" \/ ~HasLen(data.data)
    THEN HTTPException(500, "Database error")
    ELSE [status |-> 200,
          body |-> [success |-> TRUE, data |-> data.data,
                    count |-> PyLen(data.data)]]

\* Mutant of get_test_records_response: count is one short.
get_test_records_response_short_count(data) ==
    IF data.outcome = "raise"
    THEN HTTPException(500, "Database error: " \o data.message)
    ELSE IF ~HasLen(data.data)
    THEN HTTPException(500, "Database error: " \o NoLenMessage)
    ELSE [status |-> 200,
          body |-> [success |-> TRUE, data |-> data.data,
                    count |-> PyLen(data.data) - 1]]

\* Mutant of get_test_records_response: count is len(data.data or []), so
\* None counts as no rows.
get_test_records_response_none_as_empty(data) ==
    IF data.outcome = "raise"
    THEN HTTPException(500, "Database error: " \o data.message)
    ELSE [status |-> 200,
          body |-> [success |-> TRUE, data |-> data.data,
                    count |-> IF HasLen(data.data)
                              THEN PyLen(data.data) ELSE 0]]

\* def get_test_records(): the try block and its except clause.
get_test_records_response(data) ==
    IF data.outcome = "raise"
    THEN HTTPException(500, "Database error: " \o data.message)
    ELSE IF ~HasLen(data.data)
    THEN HTTPException(500, "Database error: " \o NoLenMessage)
    ELSE [status |-> 200,
          body |-> [success |-> TRUE, data |-> data.data,
                    count |-> PyLen(data.data)]]

\* Mutant of add_test_record_response: the response carries
\* list(response.data or []) instead of response.data.
add_test_record_response_as_list(result) ==
    IF result.outcome = "raise"
    THEN HTTPException(500, "Database error: " \o result.message)
    ELSE [status |-> 200,
          body |-> [success |-> TRUE, data |-> PyList(result.data.value)]]

\* Mutant of add_test_record_response: the except clause returns a normal
\* response with success false.
add_test_record_response_soft_failure(result) ==
    IF result.outcome = "raise"
    THEN [status |-> 200, body |-> [success |-> FALSE, data |-> PyNone]]
    ELSE [status |-> 200, body |-> [success |-> TRUE, data |-> result.data]]

\* def add_test_record(record): the try block and its except clause.
add_test_record_response(result) ==
    IF result.outcome = "raise"
    THEN HTTPException(500, "Database error: " \o result.message)
    ELSE [status |-> 200, body |-> [success |-> TRUE, data |-> result.data]]

\* Mutant of insert_argument: the handler stamps a role on the record.
insert_argument_stamped(record) ==
    [k \in DOMAIN record \cup {"role"} |->
        IF k = "role" THEN "user" ELSE record[k]]

\* The mapping add_test_record hands to insert().
insert_argument(record) == record

GetRoot == [method |-> "GET", path |-> "/", body |-> NoBody]
GetTest == [method |-> "GET", path |-> "/test", body |-> NoBody]
PostTest(record) == [method |-> "POST", path |-> "/test", body |-> record]

\* The router hands the request to its handler, which answers it.
Handle(req, resp) ==
    /\ Len(request) < MaxRequests
    /\ request' = Append(request, req)
    /\ response' = Append(response, resp)
    /\ UNCHANGED cors

root ==
    /\ Handle(GetRoot, root_response)
    /\ UNCHANGED <<test_records, calls>>

\* Mutant of get_test_records: the handler keeps a running total of the
\* rows it has returned and reports it as count.
get_test_records_running_total(types) ==
    \E data \in select(test_records, types) :
        LET resp == get_test_records_response(data)
            earlier == { q \in 1..Len(request) :
                           request[q] = GetTest /\ response[q].status = 200 }
            total == IF earlier = {} THEN 0
                     ELSE response[CHOOSE q \in earlier :
                                     \A o \in earlier : o <= q].body.count
        IN  /\ Handle(GetTest,
                      IF resp.status = 200
                      THEN [resp EXCEPT !.body.count = @ + total]
                      ELSE resp)
            /\ calls' = Append(calls,
                               Call(Len(request) + 1, "select", NoBody, data))
            /\ UNCHANGED test_records

get_test_records(types) ==
    \E data \in select(test_records, types) :
        /\ Handle(GetTest, get_test_records_response(data))
        /\ calls' = Append(calls, Call(Len(request) + 1, "select", NoBody, data))
        /\ UNCHANGED test_records

\* Mutant of add_test_record: a raising insert is tried once more.
add_test_record_retry(record, types) ==
    LET argument == insert_argument(record)
    IN  \E res \in insert(test_records, argument, types) :
          \E again \in insert(res[2], argument, types) :
            LET first == Call(Len(request) + 1, "insert", argument, res[1])
                second == Call(Len(request) + 1, "insert", argument, again[1])
                retried == res[1].outcome = "raise"
            IN  /\ Handle(PostTest(record),
                          add_test_record_response(IF retried THEN again[1]
                                                   ELSE res[1]))
                /\ calls' = IF retried THEN calls \o <<first, second>>
                            ELSE Append(calls, first)
                /\ test_records' = IF retried THEN again[2] ELSE res[2]

add_test_record(record, types) ==
    LET argument == insert_argument(record)
    IN  \E res \in insert(test_records, argument, types) :
          /\ Handle(PostTest(record), add_test_record_response(res[1]))
          /\ calls' = Append(calls,
                             Call(Len(request) + 1, "insert", argument, res[1]))
          /\ test_records' = res[2]

Init ==
    /\ test_records = <<>>
    /\ request = <<>>
    /\ response = <<>>
    /\ calls = <<>>
    /\ cors = [phase |-> "none"]

\* The database client may return any data.
Next ==
    \/ root
    \/ get_test_records(AnyData)
    \/ \E record \in Records : add_test_record(record, AnyData)

Spec == Init /\ [][Next]_vars

\* The database client keeps to its documented interface.
NextRows ==
    \/ root
    \/ get_test_records(Documented)
    \/ \E record \in Records : add_test_record(record, Documented)

SpecRows == Init /\ [][NextRows]_vars

(* ------------------------ cross-origin access ------------------------- *)

\* Mutant of allow_origins: every origin is allowed.
allow_origins_any == { "*" }

\* app.add_middleware(CORSMiddleware, ...)
allow_origins == { "http://localhost:3000" }
allow_credentials == TRUE
allow_methods == { "*" }
allow_headers == { "*" }

is_allowed_origin(origin) == "*" \in allow_origins \/ origin \in allow_origins
is_allowed_method(method) == "*" \in allow_methods \/ method \in allow_methods
is_allowed_header(header) == "*" \in allow_headers \/ header \in allow_headers

\* Origins, methods and request headers a browser may present.
Origins == { "http://localhost:3000", "https://localhost:3000",
             "http://localhost:3001", "http://127.0.0.1:3000",
             "http://evil.example" }
Methods == { "GET", "POST", "PUT", "PATCH", "DELETE", "HEAD", "OPTIONS" }
RequestHeaders == { "content-type", "authorization", "x-requested-with" }

CorsRequest(origin, method, header) ==
    [phase |-> "request", origin |-> origin, method |-> method,
     header |-> header, allow_origin |-> "", allow_credentials |-> FALSE,
     method_allowed |-> FALSE, header_allowed |-> FALSE]

\* The middleware answers a cross-origin request: the origin is echoed in
\* Access-Control-Allow-Origin only when it is an allowed origin.
CORSMiddleware ==
    /\ cors.phase = "request"
    /\ cors' = [cors EXCEPT
                  !.phase = "response",
                  !.allow_origin = IF is_allowed_origin(cors.origin)
                                   THEN cors.origin ELSE "",
                  !.allow_credentials = allow_credentials,
                  !.method_allowed = is_allowed_method(cors.method),
                  !.header_allowed = is_allowed_header(cors.header)]
    /\ UNCHANGED <<test_records, request, response, calls>>

InitCors ==
    /\ test_records = <<>>
    /\ request = <<>>
    /\ response = <<>>
    /\ calls = <<>>
    /\ cors \in { CorsRequest(o, m, h) :
                    o \in Origins, m \in Methods, h \in RequestHeaders }

NextCors == CORSMiddleware

SpecCors == InitCors /\ [][NextCors]_vars

(* ----------------------------- properties ------------------------------ *)

Handled == 1..Len(request)
IsRoot(r) == request[r].method = "GET" /\ request[r].path = "/"
IsGetTest(r) == request[r].method = "GET" /\ request[r].path = "/test"
IsPostTest(r) == request[r].method = "POST" /\ request[r].path = "/test"
Succeeded(r) == response[r].status = 200

\* The database calls request r issued, as positions of the call log.
CallsOf(r) == { i \in 1..Len(calls) : calls[i].req = r }
ResultsOf(r) == { calls[i].result : i \in CallsOf(r) }

\* C1: a select or insert that raises ends its request with status 500 and
\* the detail "Database error: " followed by str(e), never anything else.
C1_ExceptionIs500 ==
    \A i \in 1..Len(calls) :
        calls[i].result.outcome = "raise" =>
            /\ response[calls[i].req].status = 500
            /\ response[calls[i].req].body =
                 [detail |-> "Database error: " \o calls[i].result.message]

C1_Witness ==
    /\ \E i \in 1..Len(calls) :
          /\ calls[i].op = "select" /\ calls[i].result.outcome = "raise"
          /\ response[calls[i].req].status = 500
    /\ \E i \in 1..Len(calls) :
          /\ calls[i].op = "insert" /\ calls[i].result.outcome = "raise"
          /\ response[calls[i].req].status = 500

\* C2: in a success response of GET /test, count is the length of data and
\* data is what the request's one select on "test_records" returned.
C2_CountIsLenOfData ==
    \A r \in Handled :
        IsGetTest(r) /\ Succeeded(r) =>
            /\ response[r].body.count = PyLen(response[r].body.data)
            /\ \E i \in CallsOf(r) :
                  /\ CallsOf(r) = {i}
                  /\ calls[i].op = "select"
                  /\ calls[i].table = "test_records"
                  /\ calls[i].result.outcome = "return"
                  /\ response[r].body.data = calls[i].result.data

C2_Witness ==
    \E r \in Handled :
        /\ IsGetTest(r) /\ Succeeded(r)
        /\ response[r].body.data.type = "list"
        /\ response[r].body.count = 2

Contains(data, record) ==
    /\ data.type = "list"
    /\ \E k \in 1..Len(data.value) : data.value[k] = record

GetPostGet(g1, p, g2) ==
    /\ g1 < p /\ p < g2
    /\ IsGetTest(g1) /\ Succeeded(g1)
    /\ IsPostTest(p) /\ Succeeded(p)
    /\ IsGetTest(g2) /\ Succeeded(g2)

IncludesAndIncrements(g1, p, g2) ==
    /\ Contains(response[g2].body.data, request[p].body)
    /\ response[g2].body.count = response[g1].body.count + 1

\* C3 as stated: a GET /test that returned count n, then a successful
\* POST /test of r, then a successful GET /test: the second GET's data
\* contains r and its count is n + 1.
C3_PostThenGet ==
    \A g1 \in Handled, p \in Handled, g2 \in Handled :
        GetPostGet(g1, p, g2) => IncludesAndIncrements(g1, p, g2)

\* C3 as amended: the same, provided no other POST /test issued its insert
\* between the first GET's select and the second GET's select.
C3_PostThenGetAlone ==
    \A g1 \in Handled, p \in Handled, g2 \in Handled :
        /\ GetPostGet(g1, p, g2)
        /\ \A q \in (g1 + 1)..(g2 - 1) : q # p => ~IsPostTest(q)
        => IncludesAndIncrements(g1, p, g2)

C3_Witness ==
    \E g1 \in Handled, p \in Handled, g2 \in Handled :
        /\ GetPostGet(g1, p, g2)
        /\ \A q \in (g1 + 1)..(g2 - 1) : q # p => ~IsPostTest(q)
        /\ response[g1].body.count = 1
        /\ response[g2].body.count = 2

\* C4: GET / answers exactly the fixed message with status 200, whatever
\* the collection holds and whatever was handled before, and issues no
\* database call.
C4_RootIsFixed ==
    \A r \in Handled :
        IsRoot(r) =>
            /\ response[r] =
                 [status |-> 200,
                  body |-> [message |-> "Backend connected successfully!"]]
            /\ CallsOf(r) = {}

C4_Witness ==
    \E r \in Handled :
        /\ IsRoot(r) /\ Succeeded(r)
        /\ test_records # <<>>
        /\ \E q \in 1..(r - 1) : response[q].status = 500

\* C5: POST /test hands its request body unchanged to one insert on
\* "test_records", and the data of its success response is the data that
\* insert returned.
C5_InsertVerbatim ==
    \A r \in Handled :
        IsPostTest(r) =>
            \E i \in CallsOf(r) :
                /\ CallsOf(r) = {i}
                /\ calls[i].op = "insert"
                /\ calls[i].table = "test_records"
                /\ calls[i].record = request[r].body
                /\ Succeeded(r) =>
                      /\ calls[i].result.outcome = "return"
                      /\ response[r].body.data = calls[i].result.data

C5_Witness ==
    \E r \in Handled :
        /\ IsPostTest(r) /\ Succeeded(r)
        /\ DOMAIN request[r].body = {"name", "role"}
        /\ response[r].body.data = PyList(<<request[r].body>>)

\* C6: only the origin http://localhost:3000 is granted cross-origin
\* access, and for it every method and every header is allowed, with
\* credentials.
C6_OnlyLocalFrontend ==
    cors.phase = "response" =>
        /\ cors.allow_origin # "" <=> cors.origin = "http://localhost:3000"
        /\ cors.origin = "http://localhost:3000" =>
              /\ cors.allow_origin = cors.origin
              /\ cors.allow_credentials
              /\ cors.method_allowed
              /\ cors.header_allowed

C6_Witness ==
    /\ cors.phase = "response"
    /\ cors.origin = "http://localhost:3000"
    /\ cors.method = "DELETE"
    /\ cors.allow_origin = "http://localhost:3000"

Count(record, rows) ==
    Cardinality({ k \in 1..Len(rows) : rows[k] = record })

\* C7: GET /test issues exactly one select and POST /test exactly one
\* insert, whether the call returns or raises; GET / issues none; a record
\* is in the collection at most once per POST /test that carried it.
C7_NoRetries ==
    /\ \A r \in Handled :
          /\ IsRoot(r) => CallsOf(r) = {}
          /\ IsGetTest(r) =>
                /\ Cardinality(CallsOf(r)) = 1
                /\ \A i \in CallsOf(r) : calls[i].op = "select"
          /\ IsPostTest(r) =>
                /\ Cardinality(CallsOf(r)) = 1
                /\ \A i \in CallsOf(r) : calls[i].op = "insert"
    /\ \A record \in Records :
          Count(record, test_records) <=
             Cardinality({ r \in Handled :
                             IsPostTest(r) /\ request[r].body = record })

C7_Witness ==
    /\ \E r \in Handled :
          /\ IsPostTest(r) /\ response[r].status = 500
          /\ Count(request[r].body, test_records) = 1
    /\ \E r \in Handled : IsGetTest(r) /\ response[r].status = 500

\* A step that handles GET / or GET /test leaves the collection as it was
\* and issues no insert.
ReadOnlyStep ==
    /\ Len(request') = Len(request) + 1
    /\ request'[Len(request')].method = "GET"
    => /\ test_records' = test_records
       /\ \A i \in (Len(calls) + 1)..Len(calls') : calls'[i].op = "select"

\* Two requests that are alike and whose database calls had the same
\* results got the same response, whatever was handled in between.
SameCallSameResponse ==
    \A r \in Handled, q \in Handled :
        request[r] = request[q] /\ ResultsOf(r) = ResultsOf(q)
            => response[r] = response[q]

\* C8: the read endpoints leave the collection unchanged, and a response
\* depends only on its request and on the result of that request's
\* database call.
C8_Stateless == [][ReadOnlyStep]_vars /\ []SameCallSameResponse

C8_Witness ==
    \E r \in Handled, q \in Handled :
        /\ r < q
        /\ IsGetTest(r) /\ IsGetTest(q)
        /\ \E p \in (r + 1)..(q - 1) : IsPostTest(p)
        /\ ResultsOf(r) = ResultsOf(q)
        /\ test_records # <<>>

\* C9: a response of GET /test or POST /test is either 200 with success
\* true or 500; a raising database call is never answered with 200.
C9_SuccessIsTrue ==
    \A r \in Handled :
        IsGetTest(r) \/ IsPostTest(r) =>
            /\ response[r].status \in {200, 500}
            /\ Succeeded(r) =>
                  /\ response[r].body.success = TRUE
                  /\ \A res \in ResultsOf(r) : res.outcome = "return"

C9_Witness ==
    /\ \E r \in Handled :
          IsGetTest(r) /\ Succeeded(r) /\ response[r].body.success
    /\ \E r \in Handled :
          IsPostTest(r) /\ Succeeded(r) /\ response[r].body.success
    /\ \E r \in Handled : response[r].status = 500

\* C10 as stated: when the call returns data that is not a list, GET /test
\* answers 500 and POST /test answers success with that data unchanged.
C10_NotAListFailsGet ==
    \A r \in Handled :
        \A res \in ResultsOf(r) :
            res.outcome = "return" /\ res.data.type # "list" =>
                /\ IsGetTest(r) => response[r].status = 500
                /\ IsPostTest(r) =>
                      /\ Succeeded(r)
                      /\ response[r].body.data = res.data

\* C10 as amended: when the call returns data that has no length (None),
\* GET /test answers 500 with the "Database error: " detail of the
\* TypeError and POST /test answers success with that data unchanged; data
\* that is not a list but has a length (a mapping) makes GET /test answer
\* success with that length as count; so the data of a GET /test success
\* always has a length, and the data of a POST /test success need not be a
\* list.
C10_NoLengthFailsGet ==
    \A r \in Handled :
        /\ IsGetTest(r) /\ Succeeded(r) => HasLen(response[r].body.data)
        /\ \A res \in ResultsOf(r) :
              res.outcome = "return" /\ res.data.type # "list" =>
                  /\ IsPostTest(r) =>
                        /\ Succeeded(r)
                        /\ response[r].body.data = res.data
                  /\ IsGetTest(r) /\ res.data.type = "NoneType" =>
                        /\ response[r].status = 500
                        /\ response[r].body =
                             [detail |-> "Database error: " \o
                                "object of type 'NoneType' has no len()"]
                  /\ IsGetTest(r) /\ res.data.type = "dict" =>
                        /\ Succeeded(r)
                        /\ response[r].body.data = res.data
                        /\ response[r].body.count =
                             Cardinality(DOMAIN res.data.value[1])

C10_Witness ==
    /\ \E r \in Handled :
          /\ IsGetTest(r) /\ response[r].status = 500
          /\ \E res \in ResultsOf(r) :
                res.outcome = "return" /\ res.data.type = "NoneType"
    /\ \E r \in Handled :
          /\ IsPostTest(r) /\ Succeeded(r)
          /\ response[r].body.data.type = "NoneType"
====
